---- MODULE Spec2Model ----
(***************************************************************************)
(* Tempo timesheet reconciliation (src/lib/jira/tempo_data.py) and the     *)
(* Jira client (src/lib/jira/jira.py): its activity label/code maps, its   *)
(* construction, the checking of responses and the paging of search.       *)
(*                                                                         *)
(* Python strings that the code indexes, splits or searches are sequences  *)
(* of one-character strings; strings that are only compared or used as     *)
(* dictionary keys/values of the Tempo tables are TLA+ strings.            *)
(* An optional value (Python None or a value) is a sequence of length 0    *)
(* or 1.  A float is a record [nan, tenths]: the value in tenths, or NaN.  *)
(***************************************************************************)
EXTENDS Integers, Sequences, FiniteSets, TLC

VARIABLES
    entries,    \* TempoData.entries of the file-side object: date -> list of logs
    pc,         \* position of from_file: "start", "lines", "done", "failed"
    cur,        \* index (into Dates) of the date whose lines are being parsed
    nlines,     \* lines of the file consumed so far
    seen,       \* lines of the current date handled so far
    nskip,      \* lines of the current date skipped so far
    last,       \* the last line handled and what became of it
    other,      \* TempoData.entries of the object self is compared with
    results,    \* the last call of diff and what it returned
    server,     \* the worklogs the Tempo server holds
    jlast,      \* the last call on the Jira client and what became of it
    HEADERS,    \* jira.py's module-level dictionary of request headers
    environ,    \* os.environ['JIRA_TOKEN']: None when the variable is not set
    SDE_CONFIG, \* sde.py's module-level logging configuration
    clients,    \* the JiraClient objects constructed so far
    hlast,      \* the last operation that sent a request, and what became of it
    raised,     \* the exception types that error responses were surfaced as
    spc,        \* position of search: "idle", "paging", "returned", "raised"
    start,      \* search's local `start`
    values,     \* search's local `values`
    max_results,\* search's parameter
    slog        \* the requests of the search, their responses and its outcome

fileVars == <<pc, cur, nlines, seen, nskip, last>>
diffVars == <<other, results>>
jiraVars == <<server, jlast>>
clientVars == <<HEADERS, environ, SDE_CONFIG, clients, hlast, raised>>
searchVars == <<spc, start, values, max_results, slog>>
vars == <<entries, pc, cur, nlines, seen, nskip, last, other, results, server, jlast,
          clientVars, searchVars>>

-----------------------------------------------------------------------------
(* Bounds *)

\* lines of one work-log file
MaxLines == 3

\* entries held by the two operands of diff together
MaxEntries == 3

\* worklogs on the Tempo server
MaxServer == 2

\* JiraClient objects constructed in one process
MaxClients == 2

\* pages with issues that the server returns to one search
MaxPages == 3

-----------------------------------------------------------------------------
(* Optional values *)

None == << >>
Some(x) == <<x>>
IsNone(o) == o = << >>
Val(o) == o[1]

-----------------------------------------------------------------------------
(* Python str operations used by the parser *)

Upper == {"P", "Q"}
Digit == {"0", "1", "2", "5", "7"}
White == {" ", "\t", "\n"}

RECURSIVE LStrip(_)
LStrip(s) == IF s # << >> /\ Head(s) \in White THEN LStrip(Tail(s)) ELSE s

RECURSIVE RStrip(_)
RStrip(s) ==
    IF s # << >> /\ s[Len(s)] \in White THEN RStrip(SubSeq(s, 1, Len(s) - 1)) ELSE s

\* str.strip()
Strip(s) == RStrip(LStrip(s))

\* str.startswith(p)
StartsWith(s, p) == Len(s) >= Len(p) /\ SubSeq(s, 1, Len(p)) = p

\* p in s
Contains(s, p) ==
    \E i \in 0..(Len(s) - Len(p)) : SubSeq(s, i + 1, i + Len(p)) = p

\* position of the first single space of s, 0 when there is none
RECURSIVE FirstSpace(_, _)
FirstSpace(s, i) ==
    IF i > Len(s) THEN 0
    ELSE IF s[i] = " " THEN i
    ELSE FirstSpace(s, i + 1)

\* str.split(' ', maxsplit)
RECURSIVE Split(_, _)
Split(s, maxsplit) ==
    LET i == FirstSpace(s, 1)
    IN  IF maxsplit = 0 \/ i = 0 THEN <<s>>
        ELSE <<SubSeq(s, 1, i - 1)>> \o Split(SubSeq(s, i + 1, Len(s)), maxsplit - 1)

\* float(str) on the tokens of the model's alphabet: digits+, digits+ "." digit,
\* or "nan"; anything else raises ValueError.  The value is kept in tenths.
DigitVal(c) ==
    CASE c = "0" -> 0 [] c = "1" -> 1 [] c = "2" -> 2 [] c = "5" -> 5 [] c = "7" -> 7

RECURSIVE DecVal(_)
DecVal(s) == IF s = << >> THEN 0 ELSE 10 * DecVal(SubSeq(s, 1, Len(s) - 1)) + DigitVal(s[Len(s)])

AllDigits(s) == s # << >> /\ \A i \in 1..Len(s) : s[i] \in Digit

NaN == [nan |-> TRUE, tenths |-> 0]
Num(t) == [nan |-> FALSE, tenths |-> t]

float(s) ==
    IF s = <<"n", "a", "n">> THEN [ok |-> TRUE, v |-> NaN]
    ELSE IF AllDigits(s) THEN [ok |-> TRUE, v |-> Num(10 * DecVal(s))]
    ELSE IF Len(s) >= 3 /\ s[Len(s) - 1] = "." /\ AllDigits(SubSeq(s, 1, Len(s) - 2))
            /\ s[Len(s)] \in Digit
         THEN [ok |-> TRUE, v |-> Num(10 * DecVal(SubSeq(s, 1, Len(s) - 2)) + DigitVal(s[Len(s)]))]
    ELSE [ok |-> FALSE, v |-> NaN]

\* x != y on two floats: NaN differs from everything, itself included
FloatNe(x, y) == x.nan \/ y.nan \/ x.tenths # y.tenths

\* re.match('[A-Z0-9]+-[0-9]+$', s): one or more of [A-Z0-9], a hyphen, one or
\* more digits, then the end of the string or a newline that ends the string
IssueKeyMatch(s) ==
    \E i \in 1..Len(s) : \E j \in (i + 2)..Len(s) + 1 :
        /\ \A k \in 1..i : s[k] \in Upper \cup Digit
        /\ s[i + 1] = "-"
        /\ \A k \in (i + 2)..(j - 1) : s[k] \in Digit
        /\ j - 1 >= i + 2
        /\ \/ j = Len(s) + 1
           \/ j = Len(s) /\ s[j] = "\n"

\* re.search(pat, s) for the patterns of the rule table: literal characters,
\* "." (any character but a newline), a leading "^" and a trailing "$"
ReBody(pat) ==
    LET a == IF pat # << >> /\ Head(pat) = "^" THEN Tail(pat) ELSE pat
    IN  IF a # << >> /\ a[Len(a)] = "$" THEN SubSeq(a, 1, Len(a) - 1) ELSE a

ReMatchAt(body, s, i) ==
    /\ i + Len(body) - 1 <= Len(s)
    /\ \A k \in 1..Len(body) :
          IF body[k] = "." THEN s[i + k - 1] # "\n" ELSE s[i + k - 1] = body[k]

ReSearch(pat, s) ==
    LET body == ReBody(pat)
        atStart == pat # << >> /\ Head(pat) = "^"
        atEnd == LET a == IF atStart THEN Tail(pat) ELSE pat
                 IN  a # << >> /\ a[Len(a)] = "$"
    IN  \E i \in 1..(Len(s) + 1) :
            /\ atStart => i = 1
            /\ ReMatchAt(body, s, i)
            /\ atEnd => \/ i + Len(body) - 1 = Len(s)
                        \/ i + Len(body) - 1 = Len(s) - 1 /\ s[Len(s)] = "\n"

-----------------------------------------------------------------------------
(* Tempo activity labels and codes, as strings of characters *)

Design == <<"D", "e", "s", "i", "g", "n">>
Development == <<"D", "e", "v", "e", "l", "o", "p", "m", "e", "n", "t">>
TestingPreDeployment == <<"T", "e", "s", "t", "i", "n", "g", " ", "-", " ", "P", "r", "e", " ", "D", "e", "p", "l", "o", "y", "m", "e", "n", "t">>
NonProjectMeeting == <<"N", "o", "n", "-", "P", "r", "o", "j", "e", "c", "t", " ", "m", "e", "e", "t", "i", "n", "g">>
Requirements == <<"R", "e", "q", "u", "i", "r", "e", "m", "e", "n", "t", "s">>
NonProjectmeeting == <<"N", "o", "n", "-", "P", "r", "o", "j", "e", "c", "t", "m", "e", "e", "t", "i", "n", "g">>

-----------------------------------------------------------------------------
(* Configuration read by TempoData.__init__: one configuration with an alias  *)
(* of each kind and rules of both kinds                                       *)

\* comment-to-act.json: 'same' literals in order, then (regex, activity) pairs
c2a ==
    [same |-> << <<"d", "v">>, <<"t">>, <<"q">> >>,
     map  |-> << << <<"^", "m">>, <<"m", "t">> >>,
                 << <<"m">>, <<"d", "s">> >> >>]

\* work.json updated with work-custom.json: alias -> issue and optional activity
cfg ==
    (<<"a", "l">> :> [issue |-> <<"P", "-", "1">>, activity |-> Some(<<"d", "v">>)])
    @@ (<<"a", "n">> :> [issue |-> <<"P", "-", "2">>, activity |-> None])
    @@ (<<"a", "k">> :> [issue |-> <<"P", "-", "1">>, activity |-> Some(<<"z">>)])
    @@ (<<"Q", "-", "1">> :> [issue |-> <<"P", "-", "2">>, activity |-> Some(<<"t">>)])

\* activity.json: activity name -> Tempo activity label
activity_map ==
    (<<"d", "v">> :> Development)
    @@ (<<"t">> :> TestingPreDeployment)
    @@ (<<"m", "t">> :> NonProjectMeeting)
    @@ (<<"d", "s">> :> Design)

\* issues.json: issue key -> summary
issues == (<<"P", "-", "1">> :> "summary of P-1")

\* the days of the work-log file, in sorted order
Dates == <<"2024-01-01", "2024-01-02">>

-----------------------------------------------------------------------------
(* TempoData.comment_to_activity *)

\* the first loop without its break: the last literal that occurs wins
RECURSIVE SameLoop_NoBreak(_, _)
SameLoop_NoBreak(i, comment) ==
    IF i > Len(c2a.same) THEN None
    ELSE LET rest == SameLoop_NoBreak(i + 1, comment)
         IN  IF ~IsNone(rest) THEN rest
             ELSE IF Contains(comment, c2a.same[i]) THEN Some(c2a.same[i])
             ELSE None

\* first loop: the first literal of the 'same' list, from position i on, that
\* occurs in the comment; None when the loop ends without a break
RECURSIVE SameLoop(_, _)
SameLoop(i, comment) ==
    IF i > Len(c2a.same) THEN None
    ELSE IF Contains(comment, c2a.same[i]) THEN Some(c2a.same[i])
    ELSE SameLoop(i + 1, comment)

\* second loop: the activity of the first pair, from position i on, whose regex
\* is found in the comment, and the number of regexes tried on the way
RECURSIVE MapLoop(_, _)
MapLoop(i, comment) ==
    IF i > Len(c2a.map) THEN [activity |-> None, tried |-> i - 1]
    ELSE IF ReSearch(c2a.map[i][1], comment)
         THEN [activity |-> Some(c2a.map[i][2]), tried |-> i]
    ELSE MapLoop(i + 1, comment)

\* comment_to_activity without `if activity is None`: the second loop always
\* runs and a regex that matches replaces the literal
comment_to_activity_NoGuard(comment) ==
    IF IsNone(comment)
    THEN [exc |-> "TypeError", activity |-> None, tried |-> 0]
    ELSE LET lit == SameLoop(1, Val(comment))
             m == MapLoop(1, Val(comment))
         IN  [exc |-> "none",
              activity |-> IF IsNone(m.activity) THEN lit ELSE m.activity,
              tried |-> m.tried]

\* comment_to_activity(comment), comment an optional string.  With comment None
\* the first `in` or re.search evaluated raises TypeError.
comment_to_activity(comment) ==
    IF IsNone(comment)
    THEN IF Len(c2a.same) > 0 \/ Len(c2a.map) > 0
         THEN [exc |-> "TypeError", activity |-> None, tried |-> 0]
         ELSE [exc |-> "none", activity |-> None, tried |-> 0]
    ELSE LET lit == SameLoop(1, Val(comment))
         IN  IF ~IsNone(lit)
             THEN [exc |-> "none", activity |-> lit, tried |-> 0]
             ELSE LET m == MapLoop(1, Val(comment))
                  IN  [exc |-> "none", activity |-> m.activity, tried |-> m.tried]

-----------------------------------------------------------------------------
(* TempoData.parse_file_log_entry *)

NoEntry == [hours |-> NaN, issue |-> << >>, activity |-> << >>, comment |-> << >>,
            debug_work_item |-> << >>]

\* what a call came to: the exception raised ("none" when it returned), which
\* raise statement it was, the token the message names, the issue and the
\* activity resolved, whether comment_to_activity was called, what it returned
\* and how many regexes it tried, and the entry appended
Outcome(exc, what, token, issue, activity, called, c2aRes, tried, entry) ==
    [exc |-> exc, what |-> what, token |-> token, issue |-> issue,
     activity |-> activity, c2aCalled |-> called, c2aResult |-> c2aRes,
     reTried |-> tried, entry |-> entry]

Raise(exc, what, token) ==
    Outcome(exc, what, token, << >>, None, FALSE, None, 0, NoEntry)

\* the build with use_comment started from the resolved issue
BuildEntry_IssueComment(hours, work_item, comment, issue, activity, called, c2aRes, tried) ==
    LET use_comment == IF IsNone(comment) THEN issue
                       ELSE issue \o <<" ", "-", " ">> \o Val(comment)
        h == float(hours)
    IN  IF ~h.ok
        THEN Outcome("ValueError", "float", hours, issue, activity, called, c2aRes, tried, NoEntry)
        ELSE IF IsNone(activity) \/ Val(activity) \notin DOMAIN activity_map
        THEN Outcome("KeyError", "activity_map", work_item, issue, activity, called, c2aRes,
                     tried, NoEntry)
        ELSE LET base == [hours |-> h.v, issue |-> issue,
                          activity |-> activity_map[Val(activity)],
                          comment |-> use_comment, debug_work_item |-> work_item]
                 entry == IF issue \in DOMAIN issues
                          THEN base @@ [issue_summary |-> issues[issue]]
                          ELSE base
             IN  Outcome("none", "appended", work_item, issue, activity, called, c2aRes,
                         tried, entry)

\* lines 128-140: the entry is built (float(hours) first, then the activity
\* look-up) and appended
BuildEntry(hours, work_item, comment, issue, activity, called, c2aRes, tried) ==
    LET use_comment == IF IsNone(comment) THEN work_item
                       ELSE work_item \o <<" ", "-", " ">> \o Val(comment)
        h == float(hours)
    IN  IF ~h.ok
        THEN Outcome("ValueError", "float", hours, issue, activity, called, c2aRes, tried, NoEntry)
        ELSE IF IsNone(activity) \/ Val(activity) \notin DOMAIN activity_map
        THEN Outcome("KeyError", "activity_map", work_item, issue, activity, called, c2aRes,
                     tried, NoEntry)
        ELSE LET base == [hours |-> h.v, issue |-> issue,
                          activity |-> activity_map[Val(activity)],
                          comment |-> use_comment, debug_work_item |-> work_item]
                 entry == IF issue \in DOMAIN issues
                          THEN base @@ [issue_summary |-> issues[issue]]
                          ELSE base
             IN  Outcome("none", "appended", work_item, issue, activity, called, c2aRes,
                         tried, entry)

\* the same with the first literal of the 'same' list taken when the comment
\* gives no activity
FromComment_Default(hours, work_item, comment, issue) ==
    LET r == comment_to_activity(comment)
        a == IF r.exc # "none" \/ IsNone(r.activity) THEN Some(c2a.same[1]) ELSE r.activity
    IN  BuildEntry(hours, work_item, comment, issue, a, TRUE, r.activity, r.tried)

\* lines 110-126 followed by the build, with the activity taken from the comment
FromComment(hours, work_item, comment, issue) ==
    LET r == comment_to_activity(comment)
    IN  IF r.exc # "none"
        THEN Outcome(r.exc, "comment_to_activity", work_item, issue, None, TRUE, None,
                     r.tried, NoEntry)
        ELSE BuildEntry(hours, work_item, comment, issue, r.activity, TRUE, r.activity, r.tried)

\* lines 111-120 without the test of the comment
FromToken_NoCommentCheck(hours, work_item, comment) ==
    IF IssueKeyMatch(work_item)
    THEN FromComment(hours, work_item, comment, work_item)
    ELSE Raise("RuntimeError", "not found", work_item)

\* lines 111-120: the token is no alias
FromToken(hours, work_item, comment) ==
    IF IssueKeyMatch(work_item)
    THEN IF IsNone(comment)
         THEN Raise("RuntimeError", "no comment", work_item)
         ELSE FromComment(hours, work_item, comment, work_item)
    ELSE Raise("RuntimeError", "not found", work_item)

\* lines 122-126 with the comment taking precedence over the alias's activity
FromAlias_CommentFirst(hours, work_item, comment) ==
    IF ~IsNone(cfg[work_item].activity) /\ IsNone(comment)
    THEN BuildEntry(hours, work_item, comment, cfg[work_item].issue,
                    cfg[work_item].activity, FALSE, None, 0)
    ELSE FromComment(hours, work_item, comment, cfg[work_item].issue)

\* lines 122-126: the token is an alias
FromAlias(hours, work_item, comment) ==
    IF ~IsNone(cfg[work_item].activity)
    THEN BuildEntry(hours, work_item, comment, cfg[work_item].issue,
                    cfg[work_item].activity, FALSE, None, 0)
    ELSE FromComment(hours, work_item, comment, cfg[work_item].issue)

parse_file_log_entry(line) ==
    LET spl == Split(Strip(line), 2)
    IN  IF Len(spl) < 2 THEN Raise("ValueError", "unpack", << >>)
        ELSE
        LET hours == spl[1]
            work_item == spl[2]
            comment == IF Len(spl) = 3 THEN Some(spl[3]) ELSE None
        IN  IF work_item \notin DOMAIN cfg
            THEN FromToken(hours, work_item, comment)
            ELSE FromAlias(hours, work_item, comment)

-----------------------------------------------------------------------------
(* TempoData.diff, log_exists and log_matches *)

\* log1[key] != log2[key]
KeyNe(key, log1, log2) ==
    IF key = "hours" THEN FloatNe(log1[key], log2[key]) ELSE log1[key] # log2[key]

\* the loop of log_matches over the keys, from position i on
RECURSIVE MatchLoop(_, _, _, _)
MatchLoop(keys, i, log1, log2) ==
    IF i > Len(keys) THEN TRUE
    ELSE IF KeyNe(keys[i], log1, log2) THEN FALSE
    ELSE MatchLoop(keys, i + 1, log1, log2)

\* log_matches that leaves the comment out of the comparison
log_matches_NoComment(log1, log2) ==
    MatchLoop(<<"hours", "issue", "activity">>, 1, log1, log2)

log_matches(log1, log2) ==
    MatchLoop(<<"hours", "issue", "activity", "comment">>, 1, log1, log2)

\* the loop of log_exists over self.entries[date], from position i on
RECURSIVE ExistsLoop(_, _, _)
ExistsLoop(logs, i, log) ==
    IF i > Len(logs) THEN FALSE
    ELSE IF log_matches(logs[i], log) THEN TRUE
    ELSE ExistsLoop(logs, i + 1, log)

\* log_exists that takes a log as present only when one entry alone matches it
log_exists_Once(ents, date, log) ==
    IF date \in DOMAIN ents
    THEN Cardinality({i \in 1..Len(ents[date]) : log_matches(ents[date][i], log)}) = 1
    ELSE FALSE

\* self.log_exists(date, log), self.entries being ents
log_exists(ents, date, log) ==
    IF date \in DOMAIN ents THEN ExistsLoop(ents[date], 1, log) ELSE FALSE

\* the logs of `logs`, from position i on, that do not exist in ents on date
RECURSIVE MissingLoop(_, _, _, _)
MissingLoop(logs, i, ents, date) ==
    IF i > Len(logs) THEN << >>
    ELSE IF ~log_exists(ents, date, logs[i])
         THEN <<logs[i]>> \o MissingLoop(logs, i + 1, ents, date)
    ELSE MissingLoop(logs, i + 1, ents, date)

\* results[date] as the body of the loop over the dates leaves it
DiffDate(self, oth, date) ==
    ("+" :> IF date \in DOMAIN self THEN MissingLoop(self[date], 1, oth, date) ELSE << >>)
    @@ ("-" :> IF date \in DOMAIN oth THEN MissingLoop(oth[date], 1, self, date) ELSE << >>)

\* diff that walks the dates of self only
diff_OwnDates(self, oth) ==
    [date \in DOMAIN self |-> DiffDate(self, oth, date)]

\* self.diff(other), the entries of self and of other given
diff(self, oth) ==
    [date \in (DOMAIN self) \cup (DOMAIN oth) |-> DiffDate(self, oth, date)]

\* lines 49-58 with the dates of the set walked in the given order, from position
\* i on: results.setdefault(date, ...) and the two loops that fill it
RECURSIVE DatesLoop(_, _, _, _, _)
DatesLoop(self, oth, order, i, res) ==
    IF i > Len(order) THEN res
    ELSE DatesLoop(self, oth, order, i + 1,
                   IF order[i] \in DOMAIN res THEN res
                   ELSE res @@ (order[i] :> DiffDate(self, oth, order[i])))

\* the orders in which the set of the dates may be iterated
Orders(S) == {o \in [1..Cardinality(S) -> S] : \A d \in S : \E i \in DOMAIN o : o[i] = d}

NoResult == [op |-> "none", res |-> << >>]

-----------------------------------------------------------------------------
(* jira.py: the activity tables, tempo_log and tempo_get *)

\* the dict display of TEMPO_ACT_TO_INT_MAP with two labels given the same code
TempoLiteral_SharedCode ==
    << <<Design, Design>>,
       <<Development, Design>>,
       <<TestingPreDeployment, Development>>,
       <<NonProjectMeeting, NonProjectmeeting>> >>

\* the dict display of TEMPO_ACT_TO_INT_MAP: label, code
TempoLiteral ==
    << <<Design, Requirements>>,
       <<Development, Design>>,
       <<TestingPreDeployment, Development>>,
       <<NonProjectMeeting, NonProjectmeeting>> >>

\* the dict built from the first n (key, value) pairs: a later pair replaces an
\* earlier one with the same key
RECURSIVE DictOf(_, _)
DictOf(pairs, n) ==
    IF n = 0 THEN << >>
    ELSE (pairs[n][1] :> pairs[n][2]) @@ DictOf(pairs, n - 1)

TEMPO_ACT_TO_INT_MAP == DictOf(TempoLiteral, Len(TempoLiteral))

\* {v: k for k, v in TEMPO_ACT_TO_INT_MAP.items()}
TEMPO_INT_TO_ACT_MAP ==
    DictOf([i \in 1..Len(TempoLiteral) |->
               <<TEMPO_ACT_TO_INT_MAP[TempoLiteral[i][1]], TempoLiteral[i][1]>>],
           Len(TempoLiteral))

NoJiraCall == [op |-> "none", exc |-> "none", code |-> None]

\* int(float(log['hours']) * 3600) and hours/60/60, exact for the hours of the model
Seconds(h) == h.tenths * 360
Hours(sec) == Num(sec \div 360)

\* tempo_log(worker, date, log, test), the server answering with a success
\* status or not
tempo_log(srv, date, log, test, http_ok) ==
    IF log.activity \notin DOMAIN TEMPO_ACT_TO_INT_MAP
    THEN [exc |-> "RuntimeError", code |-> None, server |-> srv]
    ELSE LET act_code == TEMPO_ACT_TO_INT_MAP[log.activity]
         IN  IF log.hours.nan
             THEN [exc |-> "ValueError", code |-> Some(act_code), server |-> srv]
             ELSE IF test
             THEN [exc |-> "none", code |-> Some(act_code), server |-> srv]
             ELSE IF ~http_ok
             THEN [exc |-> "HTTPError", code |-> Some(act_code), server |-> srv]
             ELSE [exc |-> "none", code |-> Some(act_code),
                   server |-> Append(srv,
                       [tempoWorklogId |-> Len(srv) + 1,
                        activityType |-> act_code,
                        timeSpentSeconds |-> Seconds(log.hours),
                        started |-> date,
                        issue |-> log.issue,
                        comment |-> log.comment,
                        label |-> log.activity])]

\* the loop of tempo_get over the items of the response, from position i on;
\* an activity code that TEMPO_INT_TO_ACT_MAP lacks raises KeyError
RECURSIVE PeriodLoop(_, _, _)
PeriodLoop(resp, i, period) ==
    IF i > Len(resp) THEN [exc |-> "none", period |-> period]
    ELSE LET item == resp[i]
         IN  IF item.activityType \notin DOMAIN TEMPO_INT_TO_ACT_MAP
             THEN [exc |-> "KeyError", period |-> period]
             ELSE LET started == item.started
                      p == IF started \in DOMAIN period THEN period
                           ELSE period @@ (started :> << >>)
                      log == [id |-> item.tempoWorklogId,
                              issue |-> item.issue,
                              activity |-> TEMPO_INT_TO_ACT_MAP[item.activityType],
                              comment |-> item.comment,
                              hours |-> Hours(item.timeSpentSeconds),
                              issue_summary |-> "summary"]
                  IN  PeriodLoop(resp, i + 1, [p EXCEPT ![started] = Append(@, log)])

\* the worklogs the server returns for the dates Dates[i1] .. Dates[i2]
Worklogs(srv, i1, i2) ==
    SelectSeq(srv, LAMBDA w : \E k \in i1..i2 : w.started = Dates[k])

\* tempo_get(worker, date1, date2)
tempo_get(srv, i1, i2, http_ok) ==
    IF ~http_ok THEN [exc |-> "HTTPError", period |-> << >>]
    ELSE PeriodLoop(Worklogs(srv, i1, i2), 1, << >>)

-----------------------------------------------------------------------------
(* jira.py: the module-level HEADERS, and the two ways a response is checked *)

\* HEADERS as the module is loaded
HeadersLiteral == ("content-type" :> "application/json")

\* f'Bearer {token}'
Bearer(token) == "Bearer " \o token

\* the headers of the request that requests sends: those given, the
\* Authorization header being that of the basic authentication when auth is
\* given
Wire(headers, auth) ==
    IF IsNone(auth) THEN headers
    ELSE [h \in (DOMAIN headers) \cup {"Authorization"} |->
             IF h = "Authorization" THEN "Basic " \o Val(auth)[1] ELSE headers[h]]

\* the status codes and the kinds of body of a response: a JSON text or not
Statuses == {200, 204, 304, 404, 500}
Bodies == {"json", "text"}
Responses == [status : Statuses, body : Bodies]

\* response.raise_for_status() raises HTTPError
raise_for_status(resp) == resp.status >= 400 /\ resp.status < 600

\* what a call came to: the exception that left it ("none" when it returned),
\* whether the exception holds the status code and the body of the response,
\* and the number of requests sent
CallOutcome(exc, status, body, sent) ==
    [exc |-> exc, status |-> status, body |-> body, sent |-> sent]

\* response.json() and json.loads(response.text) on the body
JsonFails(resp) == resp.body # "json"

\* self._execute(type_, url, payload, stream), the response to its request
\* being resp; payload tells whether one is given
_execute(type_, payload, stream, resp) ==
    IF type_ \notin {"GET", "PUT", "POST", "DELETE"}
    THEN CallOutcome("RuntimeError", FALSE, FALSE, 0)
    ELSE IF type_ \in {"PUT", "POST"} /\ ~payload
    THEN CallOutcome("UnboundLocalError", FALSE, FALSE, 0)
    ELSE IF raise_for_status(resp) THEN CallOutcome("HTTPError", TRUE, TRUE, 1)
    ELSE IF ~stream /\ resp.status >= 200 /\ resp.status <= 203 /\ JsonFails(resp)
    THEN CallOutcome("JSONDecodeError", FALSE, TRUE, 1)
    ELSE CallOutcome("none", FALSE, FALSE, 1)

\* check_http_response(response), the request having been sent
check_http_response(resp) ==
    IF ~raise_for_status(resp) THEN CallOutcome("none", FALSE, FALSE, 1)
    ELSE IF resp.status # 200
    THEN IF JsonFails(resp) THEN CallOutcome("JSONDecodeError", FALSE, TRUE, 1)
         ELSE CallOutcome("RuntimeError", TRUE, TRUE, 1)
    ELSE CallOutcome("none", FALSE, FALSE, 1)

\* the operations that send their request themselves and check the response
\* with check_http_response: whether they pass auth=self.user_creds, and
\* whether they decode the body with response.json() afterwards
CheckedOps ==
    [get_issue |-> [auth |-> TRUE, json |-> TRUE],
     update_issue |-> [auth |-> TRUE, json |-> FALSE],
     get_user |-> [auth |-> FALSE, json |-> TRUE]]

\* get_issue, update_issue and get_user, the response being resp
checked_call(op, resp) ==
    LET r == check_http_response(resp)
    IN  IF r.exc # "none" THEN r
        ELSE IF CheckedOps[op].json /\ JsonFails(resp)
        THEN CallOutcome("JSONDecodeError", FALSE, TRUE, 1)
        ELSE r

\* SDE_CONFIG as sde.py is loaded
SdeConfigLiteral == [logger |-> None, debug |-> TRUE]

NoRequest ==
    [via |-> "none", self |-> [user_creds |-> None, token |-> None], auth |-> None,
     resp |-> [status |-> 200, body |-> "json"],
     out |-> CallOutcome("none", FALSE, FALSE, 0), wire |-> << >>]

NoSearch == [offsets |-> << >>, pages |-> << >>, resp |-> << >>, exc |-> "none",
             result |-> None]

\* no client has been constructed and nothing was requested
ClientIdle ==
    /\ HEADERS = HeadersLiteral
    /\ environ = None
    /\ SDE_CONFIG = SdeConfigLiteral
    /\ clients = << >>
    /\ hlast = NoRequest
    /\ raised = {}

\* search has not been called
SearchIdle ==
    /\ spc = "idle"
    /\ start = 0
    /\ values = << >>
    /\ max_results = 0
    /\ slog = NoSearch

-----------------------------------------------------------------------------
(* The lines a work-log file may hold *)

SP == <<" ">>
L2(h, w) == h \o SP \o w
L3(h, w, c) == h \o SP \o w \o SP \o c

Lines ==
    { L2(<<"2">>, <<"a", "l">>),                         \* alias with an activity
      L3(<<"2">>, <<"a", "l">>, <<"t">>),                \* ... and a comment naming another
      SP \o L2(<<"2">>, <<"a", "l">>) \o <<"\t">>,       \* ... in white space
      L3(<<"2">>, <<"a", "n">>, <<"d", "v">>),           \* alias without an activity
      L2(<<"2">>, <<"a", "n">>),
      L3(<<"2">>, <<"a", "n">>, <<"z">>),
      L2(<<"2">>, <<"a", "k">>),                         \* alias, activity not in activity.json
      L3(<<"2">>, <<"Q", "-", "1">>, <<"d", "v">>),      \* alias that looks like an issue key
      L2(<<"2">>, <<"P", "-", "7">>),                    \* issue keys
      L3(<<"2">>, <<"P", "-", "7">>, <<"t", " ", "d", "v">>),
      L3(<<"2">>, <<"P", "-", "7">>, <<"m">>),
      L3(<<"2">>, <<"P", "-", "7">>, <<"z", "m">>),
      L3(<<"2">>, <<"P", "-", "7">>, <<"t", "m">>),
      L3(<<"2">>, <<"P", "-", "7">>, <<"q">>),
      L3(<<"2">>, <<"P", "-", "7">>, <<"z">>),
      L3(<<"x">>, <<"P", "-", "7">>, <<"d", "v">>),      \* hours that are no number
      L3(<<"n", "a", "n">>, <<"P", "-", "7">>, <<"d", "v">>),
      L3(<<"1", ".", "5">>, <<"a", "n">>, <<"d", "v">>),
      L3(<<"2">>, <<"p", "-", "7">>, <<"d", "v">>),      \* neither alias nor issue key
      L2(<<"2">>, <<"p", "-", "7">>),
      L3(<<"2">>, <<"P", "-">>, <<"d", "v">>),
      L3(<<"2">>, <<"P", "-", "7", "\n">>, <<"d", "v">>), \* a token that ends in a newline
      L3(<<"2">>, << >>, <<"a", "l">>),                  \* two spaces: an empty token
      <<"2">>,                                           \* a single token
      SP,                                                \* white space only
      << >>,                                             \* empty
      <<"#", "c">>,                                      \* comments of the file
      <<" ", "#", " ", "2", " ", "a", "l">> }

-----------------------------------------------------------------------------
(* from_file and parse_file_date_entries *)

NoCall == [date |-> "", line |-> << >>, kind |-> "init", pre |-> << >>,
           out |-> Raise("none", "init", << >>)]

Init ==
    /\ entries = << >>
    /\ pc = "start"
    /\ cur = 0
    /\ nlines = 0
    /\ seen = 0
    /\ nskip = 0
    /\ last = NoCall
    /\ other = << >>
    /\ results = NoResult
    /\ server = << >>
    /\ jlast = NoJiraCall
    /\ ClientIdle
    /\ SearchIdle

\* self.entries.setdefault(date, [])
SetDefault(ents, date) ==
    IF date \in DOMAIN ents THEN ents ELSE ents @@ (date :> << >>)

\* from_file takes the next date of the sorted file; parse_file_date_entries
\* makes the date present before it looks at the lines
BeginDate(i) ==
    /\ pc = "start"
    /\ i > cur
    /\ entries' = SetDefault(entries, Dates[i])
    /\ cur' = i
    /\ pc' = "lines"
    /\ seen' = 0
    /\ nskip' = 0
    /\ UNCHANGED <<nlines, last, diffVars, jiraVars, clientVars, searchVars>>

\* the test for '#' made on the line as read, before strip()
Skipped_NoStrip(line) == line = << >> \/ StartsWith(line, <<"#">>)

\* `if line:` and `if not line.startswith('#')` after strip()
Skipped(line) == line = << >> \/ StartsWith(Strip(line), <<"#">>)

\* one iteration of the loop over the lines of the date: the line is skipped
SkipLine(line) ==
    /\ pc = "lines"
    /\ nlines < MaxLines
    /\ Skipped(line)
    /\ nlines' = nlines + 1
    /\ seen' = seen + 1
    /\ nskip' = nskip + 1
    /\ last' = [date |-> Dates[cur], line |-> line, kind |-> "skipped",
                pre |-> entries[Dates[cur]], out |-> Raise("none", "skipped", << >>)]
    /\ UNCHANGED <<entries, pc, cur, diffVars, jiraVars, clientVars, searchVars>>

\* one iteration of the loop over the lines of the date: the line is parsed; an
\* exception leaves parse_file_date_entries and from_file
ParseLine(line) ==
    /\ pc = "lines"
    /\ nlines < MaxLines
    /\ ~Skipped(line)
    /\ LET date == Dates[cur]
           out == parse_file_log_entry(Strip(line))
       IN  /\ last' = [date |-> date, line |-> line, kind |-> "parsed",
                       pre |-> entries[date], out |-> out]
           /\ IF out.exc = "none"
              THEN /\ entries' = [entries EXCEPT ![date] = Append(@, out.entry)]
                   /\ pc' = "lines"
              ELSE /\ entries' = entries
                   /\ pc' = "failed"
    /\ nlines' = nlines + 1
    /\ seen' = seen + 1
    /\ UNCHANGED <<cur, nskip, diffVars, jiraVars, clientVars, searchVars>>

\* the list of the date is exhausted (or the date has no list)
EndDate ==
    /\ pc = "lines"
    /\ pc' = "start"
    /\ UNCHANGED <<entries, cur, nlines, seen, nskip, last,
                   diffVars, jiraVars, clientVars, searchVars>>

\* the file has no further date
Finish ==
    /\ pc = "start"
    /\ pc' = "done"
    /\ UNCHANGED <<entries, cur, nlines, seen, nskip, last,
                   diffVars, jiraVars, clientVars, searchVars>>

Next ==
    \/ \E i \in 1..Len(Dates) : BeginDate(i)
    \/ \E line \in Lines : SkipLine(line)
    \/ \E line \in Lines : ParseLine(line)
    \/ EndDate
    \/ Finish

Spec == Init /\ [][Next]_vars

-----------------------------------------------------------------------------
(* The operands of diff: entries as the parser builds them and as tempo_get   *)
(* builds them; each differs from the first in one thing                      *)

FileLog(hours, issue, activity, comment) ==
    [hours |-> hours, issue |-> issue, activity |-> activity, comment |-> comment,
     debug_work_item |-> <<"a", "l">>]

JiraLog(id, hours, issue, activity, comment) ==
    [id |-> id, hours |-> hours, issue |-> issue, activity |-> activity,
     comment |-> comment, issue_summary |-> "summary"]

Pool ==
    { FileLog(Num(20), <<"P", "-", "1">>, Development, <<"a", "l">>),
      JiraLog(11, Num(20), <<"P", "-", "1">>, Development, <<"a", "l">>),
      JiraLog(12, Num(15), <<"P", "-", "1">>, Development, <<"a", "l">>),
      JiraLog(13, Num(20), <<"P", "-", "2">>, Development, <<"a", "l">>),
      JiraLog(14, Num(20), <<"P", "-", "1">>, Design, <<"a", "l">>),
      FileLog(Num(20), <<"P", "-", "1">>, Development, <<"a", "l", " ", "-", " ", "t">>),
      FileLog(NaN, <<"P", "-", "1">>, Development, <<"a", "l">>) }

\* the DaySets that hold a list of n1 entries on the first date and of n2 on the
\* second, a date being absent when its number is -1
ListsOf(n) == IF n < 0 THEN {<< >>} ELSE [1..n -> Pool]

DaySetOf(n1, l1, n2, l2) ==
    [d \in {Dates[i] : i \in {k \in 1..2 : <<n1, n2>>[k] >= 0}} |->
        IF d = Dates[1] THEN l1 ELSE l2]

Size(n) == IF n < 0 THEN 0 ELSE n

InitDiff ==
    /\ \E a1, a2, b1, b2 \in -1..MaxEntries :
          /\ Size(a1) + Size(a2) + Size(b1) + Size(b2) <= MaxEntries
          /\ \E la1 \in ListsOf(a1), la2 \in ListsOf(a2) :
                entries = DaySetOf(a1, la1, a2, la2)
          /\ \E lb1 \in ListsOf(b1), lb2 \in ListsOf(b2) :
                other = DaySetOf(b1, lb1, b2, lb2)
    /\ results = NoResult
    /\ server = << >>
    /\ jlast = NoJiraCall
    /\ ClientIdle
    /\ SearchIdle
    /\ pc = "done"
    /\ cur = 0
    /\ nlines = 0
    /\ seen = 0
    /\ nskip = 0
    /\ last = NoCall

\* self.diff(other) with the dates added to self.entries as they are to results
Diff_SetDefault ==
    /\ results.op = "none"
    /\ results' = [op |-> "diff", res |-> diff(entries, other)]
    /\ entries' = [d \in (DOMAIN entries) \cup (DOMAIN other) |->
                       IF d \in DOMAIN entries THEN entries[d] ELSE << >>]
    /\ UNCHANGED <<other, fileVars, jiraVars, clientVars, searchVars>>

\* self.diff(other)
Diff ==
    /\ results.op = "none"
    /\ results' = [op |-> "diff", res |-> diff(entries, other)]
    /\ UNCHANGED <<entries, other, fileVars, jiraVars, clientVars, searchVars>>

\* self.diff(self)
DiffSelf ==
    /\ results.op = "none"
    /\ results' = [op |-> "self", res |-> diff(entries, entries)]
    /\ UNCHANGED <<entries, other, fileVars, jiraVars, clientVars, searchVars>>

\* self.diff(other) called a second time; the set of the dates is iterated in
\* some order
DiffAgain ==
    /\ results.op = "diff"
    /\ \E order \in Orders((DOMAIN entries) \cup (DOMAIN other)) :
          results' = [op |-> "again", res |-> DatesLoop(entries, other, order, 1, << >>),
                      first |-> results.res]
    /\ UNCHANGED <<entries, other, fileVars, jiraVars, clientVars, searchVars>>

NextDiff ==
    \/ Diff
    \/ DiffSelf
    \/ DiffAgain

SpecDiff == InitDiff /\ [][NextDiff]_vars

-----------------------------------------------------------------------------
(* The operands and the result of diff, as the claims speak of them *)

\* the entries of a DaySet on a date, none when the date is absent
ListOn(ents, d) == IF d \in DOMAIN ents THEN ents[d] ELSE << >>

\* equal on hours, issue, activity and comment; a NaN is equal to no float
SameHours(x, y) == ~x.nan /\ ~y.nan /\ x.tenths = y.tenths

SameFour(a, b) ==
    /\ SameHours(a.hours, b.hours)
    /\ a.issue = b.issue
    /\ a.activity = b.activity
    /\ a.comment = b.comment

\* the entries of xs, in the order of xs, that equal no entry of ys on the four fields
Unmatched(xs, ys) ==
    SelectSeq(xs, LAMBDA e : \A k \in 1..Len(ys) : ~SameFour(e, ys[k]))

-----------------------------------------------------------------------------
(* C1: the result of A.diff(B) has exactly the dates of A and of B as keys;   *)
(* on each, '+' holds the entries of A, in A's order, that equal no entry of  *)
(* B of that date on (hours, issue, activity, comment), and '-' the entries   *)
(* of B, in B's order, that equal no entry of A on them; no other field       *)
(* decides.                                                                   *)
C1_DiffContract ==
    results.op = "diff" =>
        /\ DOMAIN results.res = (DOMAIN entries) \cup (DOMAIN other)
        /\ \A d \in DOMAIN results.res :
              /\ DOMAIN results.res[d] = {"+", "-"}
              /\ results.res[d]["+"] = Unmatched(ListOn(entries, d), ListOn(other, d))
              /\ results.res[d]["-"] = Unmatched(ListOn(other, d), ListOn(entries, d))

\* on one date an entry of A and an entry of B that differ in another field
\* matched each other, while another entry of A was reported as added
C1_Witness ==
    /\ results.op = "diff"
    /\ \E d \in (DOMAIN entries) \cap (DOMAIN other) :
          /\ \E i \in 1..Len(entries[d]), k \in 1..Len(other[d]) :
                /\ SameFour(entries[d][i], other[d][k])
                /\ entries[d][i] # other[d][k]
          /\ results.res[d]["+"] # << >>
          /\ results.res[d]["-"] = << >>

-----------------------------------------------------------------------------
(* C2, as stated: A.diff(A) holds an empty '+' and an empty '-' list for      *)
(* every date of A.                                                           *)
C2_AsStated ==
    results.op = "self" =>
        \A d \in DOMAIN entries :
            /\ d \in DOMAIN results.res
            /\ results.res[d]["+"] = << >>
            /\ results.res[d]["-"] = << >>

-----------------------------------------------------------------------------
(* C3: in A.diff(B), on a date where B has no entries (an empty list, or the  *)
(* date is absent from B) '+' is the whole list of A and '-' is empty; where  *)
(* A has none '-' is the whole list of B and '+' is empty; and a date absent  *)
(* from one side gives what the date present there with an empty list gives.  *)
C3_OneSided ==
    results.op = "diff" =>
        \A d \in (DOMAIN entries) \cup (DOMAIN other) :
            /\ d \in DOMAIN results.res
            /\ ListOn(other, d) = << >> =>
                  /\ results.res[d]["+"] = ListOn(entries, d)
                  /\ results.res[d]["-"] = << >>
            /\ ListOn(entries, d) = << >> =>
                  /\ results.res[d]["-"] = ListOn(other, d)
                  /\ results.res[d]["+"] = << >>
            /\ d \notin DOMAIN other =>
                  diff(entries, other @@ (d :> << >>))[d] = results.res[d]
            /\ d \notin DOMAIN entries =>
                  diff(entries @@ (d :> << >>), other)[d] = results.res[d]

\* A holds entries on two dates; B lacks the one and holds an empty list on the other
C3_Witness ==
    /\ results.op = "diff"
    /\ \E d1, d2 \in DOMAIN entries :
          /\ entries[d1] # << >>
          /\ entries[d2] # << >>
          /\ d1 \notin DOMAIN other
          /\ d2 \in DOMAIN other
          /\ other[d2] = << >>
          /\ results.res[d1]["+"] = entries[d1]
          /\ results.res[d2]["+"] = entries[d2]

-----------------------------------------------------------------------------
(* The Jira client against a Tempo server: tempo_log and from_jira *)

\* the logs a caller may hand to tempo_log
LogPool ==
    { FileLog(Num(20), <<"P", "-", "1">>, a, <<"a", "l">>) :
        a \in {Design, Development, TestingPreDeployment, NonProjectMeeting, Requirements} }
    \cup { FileLog(NaN, <<"P", "-", "1">>, Development, <<"a", "l">>) }

\* a worklog entered on the server by other means, with an activity code that
\* the client's table lacks
Foreign ==
    [tempoWorklogId |-> 1, activityType |-> <<"R", "e", "v", "i", "e", "w">>,
     timeSpentSeconds |-> 3600, started |-> Dates[2], issue |-> <<"P", "-", "2">>,
     comment |-> <<"z">>, label |-> << >>]

InitJira ==
    /\ server \in {<< >>, <<Foreign>>}
    /\ jlast = NoJiraCall
    /\ ClientIdle
    /\ SearchIdle
    /\ entries = << >>
    /\ other = << >>
    /\ results = NoResult
    /\ pc = "start"
    /\ cur = 0
    /\ nlines = 0
    /\ seen = 0
    /\ nskip = 0
    /\ last = NoCall

\* JiraClient.tempo_log
TempoLog(date, log, test, http_ok) ==
    /\ Len(server) < MaxServer
    /\ LET r == tempo_log(server, date, log, test, http_ok)
       IN  /\ server' = r.server
           /\ jlast' = [op |-> "tempo_log", exc |-> r.exc, code |-> r.code]
    /\ UNCHANGED <<entries, fileVars, diffVars, clientVars, searchVars>>

\* TempoData.from_jira on the other object: its entries become what tempo_get
\* returns; an exception leaves them as they were
FromJira(i1, i2, http_ok) ==
    /\ LET r == tempo_get(server, i1, i2, http_ok)
       IN  /\ other' = IF r.exc = "none" THEN r.period ELSE other
           /\ jlast' = [op |-> "tempo_get", exc |-> r.exc, code |-> None]
    /\ UNCHANGED <<entries, fileVars, results, server, clientVars, searchVars>>

NextJira ==
    \/ \E d \in 1..Len(Dates), log \in LogPool, test \in BOOLEAN, http_ok \in BOOLEAN :
          TempoLog(Dates[d], log, test, http_ok)
    \/ \E i1 \in 1..Len(Dates), i2 \in 1..Len(Dates), http_ok \in BOOLEAN :
          FromJira(i1, i2, http_ok)

SpecJira == InitJira /\ [][NextJira]_vars

-----------------------------------------------------------------------------
(* C9: the two activity tables are inverse to each other and of the same      *)
(* size, so that no two labels share a code; and an entry that tempo_get      *)
(* returns for a worklog that tempo_log posted bears the label it was posted  *)
(* with.                                                                      *)
C9_RoundTrip ==
    /\ \A label \in DOMAIN TEMPO_ACT_TO_INT_MAP :
          /\ TEMPO_ACT_TO_INT_MAP[label] \in DOMAIN TEMPO_INT_TO_ACT_MAP
          /\ TEMPO_INT_TO_ACT_MAP[TEMPO_ACT_TO_INT_MAP[label]] = label
    /\ \A code \in DOMAIN TEMPO_INT_TO_ACT_MAP :
          /\ TEMPO_INT_TO_ACT_MAP[code] \in DOMAIN TEMPO_ACT_TO_INT_MAP
          /\ TEMPO_ACT_TO_INT_MAP[TEMPO_INT_TO_ACT_MAP[code]] = code
    /\ Cardinality(DOMAIN TEMPO_INT_TO_ACT_MAP) = Cardinality(DOMAIN TEMPO_ACT_TO_INT_MAP)
    /\ \A d \in DOMAIN other : \A i \in 1..Len(other[d]) :
          "id" \in DOMAIN other[d][i] =>
              LET w == server[other[d][i].id]
              IN  w.label # << >> => other[d][i].activity = w.label

\* tempo_get returned, on one date, a worklog posted as 'Design' and one posted
\* as 'Development', the two labels that are also codes
C9_Witness ==
    /\ jlast.op = "tempo_get"
    /\ jlast.exc = "none"
    /\ \E d \in DOMAIN other : \E i, k \in 1..Len(other[d]) :
          /\ other[d][i].activity = Design
          /\ server[other[d][i].id].label = Design
          /\ other[d][k].activity = Development
          /\ server[other[d][k].id].label = Development

-----------------------------------------------------------------------------
(* The last call of parse_file_log_entry, as the claims speak of it *)

LastSpl == Split(Strip(last.line), 2)
HasToken == last.kind = "parsed" /\ Len(LastSpl) >= 2
LastHours == LastSpl[1]
LastToken == LastSpl[2]
LastComment == IF Len(LastSpl) = 3 THEN Some(LastSpl[3]) ELSE None

\* the call returned and its entry is the new last entry of the date
Appended ==
    /\ last.out.exc = "none"
    /\ entries[last.date] = Append(last.pre, last.out.entry)

\* the call raised exc at the raise statement `what`; the list of the date is as before
Failed(exc, what) ==
    /\ last.out.exc = exc
    /\ last.out.what = what
    /\ entries[last.date] = last.pre
    /\ pc = "failed"

\* uppercase letters/digits, a hyphen, digits
IsIssueKey(s) ==
    \E h \in 2..(Len(s) - 1) :
        /\ s[h] = "-"
        /\ \A k \in 1..(h - 1) : s[k] \in Upper \cup Digit
        /\ \A k \in (h + 1)..Len(s) : s[k] \in Digit

KnownAlias == HasToken /\ LastToken \in DOMAIN cfg
AliasWithActivity == KnownAlias /\ ~IsNone(cfg[LastToken].activity)
IssueKeyToken == HasToken /\ LastToken \notin DOMAIN cfg /\ IsIssueKey(LastToken)

\* the literals of the 'same' list that occur in comment c, the pairs whose regex
\* is found in c, and the first of each in list order
Literals(c) == {i \in 1..Len(c2a.same) : Contains(c, c2a.same[i])}
Rules(c) == {j \in 1..Len(c2a.map) : ReSearch(c2a.map[j][1], c)}
First(S) == CHOOSE i \in S : \A k \in S : i <= k

-----------------------------------------------------------------------------
(* C4, as stated: the entry produced for a line on an alias with a predefined *)
(* activity holds the alias's issue and an activity equal to the alias's      *)
(* activity, and the comment rules are not consulted.                         *)
C4_AsStated ==
    (AliasWithActivity /\ last.out.exc = "none") =>
        /\ Appended
        /\ last.out.entry.issue = cfg[LastToken].issue
        /\ last.out.entry.activity = Val(cfg[LastToken].activity)
        /\ ~last.out.c2aCalled

(* C4, amended: on such a line the comment rules are never consulted; the     *)
(* call appends an entry exactly when the hours are a number and the alias's  *)
(* activity is a key of the activity map, and the entry then holds the        *)
(* alias's issue and the activity map's value for the alias's activity,       *)
(* whatever the comment; otherwise the call raises and appends nothing.       *)
C4_AliasActivity ==
    AliasWithActivity =>
        /\ ~last.out.c2aCalled
        /\ last.out.reTried = 0
        /\ IF float(LastHours).ok /\ Val(cfg[LastToken].activity) \in DOMAIN activity_map
           THEN /\ Appended
                /\ last.out.entry.issue = cfg[LastToken].issue
                /\ last.out.entry.activity = activity_map[Val(cfg[LastToken].activity)]
           ELSE /\ last.out.exc \in {"ValueError", "KeyError"}
                /\ entries[last.date] = last.pre
                /\ pc = "failed"

\* an entry was appended for an alias with an activity although the comment
\* holds a literal that the rules map to another activity
C4_Witness ==
    /\ AliasWithActivity
    /\ Appended
    /\ ~IsNone(LastComment)
    /\ \E i \in Literals(Val(LastComment)) :
          /\ c2a.same[i] \in DOMAIN activity_map
          /\ activity_map[c2a.same[i]] # last.out.entry.activity

-----------------------------------------------------------------------------
(* C5: on a line whose token is no alias but an issue key and whose comment   *)
(* holds a literal of the 'same' list, an entry is appended exactly when the  *)
(* hours are a number and the first such literal, in list order, is a key of  *)
(* the activity map; its issue is then the token and its activity the         *)
(* activity map's value for that literal.                                     *)
C5_SameLiteralActivity ==
    (IssueKeyToken /\ ~IsNone(LastComment) /\ Literals(Val(LastComment)) # {}) =>
        LET lit == c2a.same[First(Literals(Val(LastComment)))]
        IN  IF float(LastHours).ok /\ lit \in DOMAIN activity_map
            THEN /\ Appended
                 /\ last.out.entry.issue = LastToken
                 /\ last.out.entry.activity = activity_map[lit]
            ELSE last.out.exc # "none"

\* such an entry was appended although a regex rule matches the comment and
\* names another activity
C5_Witness ==
    /\ IssueKeyToken
    /\ ~IsNone(LastComment)
    /\ Literals(Val(LastComment)) # {}
    /\ Appended
    /\ \E j \in Rules(Val(LastComment)) :
          activity_map[c2a.map[j][2]] # last.out.entry.activity

-----------------------------------------------------------------------------
(* C6: a line whose token is no alias but an issue key and that has no        *)
(* comment fails with the missing-comment error, and the list of the date is  *)
(* left as it was.                                                            *)
C6_MissingComment ==
    (IssueKeyToken /\ IsNone(LastComment)) =>
        /\ Failed("RuntimeError", "no comment")
        /\ last.out.token = LastToken

\* the error was raised on a date that already held an entry
C6_Witness ==
    /\ IssueKeyToken
    /\ IsNone(LastComment)
    /\ last.out.what = "no comment"
    /\ Len(last.pre) > 0

-----------------------------------------------------------------------------
(* C7, as stated: a line whose token is neither an alias nor made of          *)
(* uppercase letters/digits, a hyphen and digits fails with the               *)
(* unresolved-work-item error naming the token, and nothing is appended.      *)
C7_AsStated ==
    (HasToken /\ LastToken \notin DOMAIN cfg /\ ~IsIssueKey(LastToken)) =>
        /\ Failed("RuntimeError", "not found")
        /\ last.out.token = LastToken

-----------------------------------------------------------------------------
(* C8: when comment_to_activity is called on a comment, its result is the     *)
(* first literal of the 'same' list that occurs in the comment, and then no   *)
(* regex is tried; with no such literal it is the activity of the first pair  *)
(* whose regex is found in the comment, no later regex being tried; with      *)
(* neither it is None, every regex having been tried.                         *)
C8_TwoPassFirstMatch ==
    (HasToken /\ last.out.c2aCalled /\ ~IsNone(LastComment)) =>
        LET c == Val(LastComment)
        IN  IF Literals(c) # {}
            THEN /\ last.out.c2aResult = Some(c2a.same[First(Literals(c))])
                 /\ last.out.reTried = 0
            ELSE IF Rules(c) # {}
            THEN /\ last.out.c2aResult = Some(c2a.map[First(Rules(c))][2])
                 /\ last.out.reTried = First(Rules(c))
            ELSE /\ last.out.c2aResult = None
                 /\ last.out.reTried = Len(c2a.map)

\* no literal occurs and two regexes match: the first pair gave the result
C8_Witness ==
    /\ HasToken
    /\ last.out.c2aCalled
    /\ ~IsNone(LastComment)
    /\ Literals(Val(LastComment)) = {}
    /\ Cardinality(Rules(Val(LastComment))) >= 2
    /\ last.out.c2aResult = Some(c2a.map[1][2])

-----------------------------------------------------------------------------
(* C10: a line that is empty or whose first character after white space is    *)
(* '#' is skipped: nothing is appended, nothing is raised and the loop goes   *)
(* on; a parsed line that returns appends its entry at the end of the date's  *)
(* list; the date is present from the start of its list on, and its list      *)
(* holds one entry for every line handled that was not skipped (none when     *)
(* all were skipped or the date has no lines).                                *)
IsBlankOrComment(line) ==
    \/ line = << >>
    \/ \E i \in 1..Len(line) : line[i] = "#" /\ \A k \in 1..(i - 1) : line[k] \in White

C10_SkippedLines ==
    /\ (last.kind # "init" /\ IsBlankOrComment(last.line)) =>
          /\ last.kind = "skipped"
          /\ last.out.exc = "none"
          /\ entries[last.date] = last.pre
          /\ pc # "failed"
    /\ (last.kind = "parsed" /\ last.out.exc = "none") => Appended
    /\ cur > 0 => Dates[cur] \in DOMAIN entries
    /\ (cur > 0 /\ pc # "failed") => Len(entries[Dates[cur]]) = seen - nskip

\* a line was parsed and appended after a line of the same date was skipped,
\* behind an entry appended earlier
C10_Witness ==
    /\ last.kind = "parsed"
    /\ Appended
    /\ nskip > 0
    /\ Len(last.pre) > 0

-----------------------------------------------------------------------------
(* C13: the comment stored by a call that returned is the token of the line   *)
(* when the line has no comment, and otherwise the token, ' - ' and the       *)
(* comment of the line; the token is the one written on the line, the alias   *)
(* where an alias was written, and the entry is the new last entry.           *)
C13_StoredComment ==
    (HasToken /\ last.out.exc = "none") =>
        /\ Appended
        /\ last.out.entry.debug_work_item = LastToken
        /\ (last.out.entry.comment = LastToken) <=> IsNone(LastComment)
        /\ ~IsNone(LastComment) =>
              last.out.entry.comment = LastToken \o <<" ", "-", " ">> \o Val(LastComment)

\* an entry was appended for an alias with a comment: its issue is not the token
C13_Witness ==
    /\ KnownAlias
    /\ Appended
    /\ ~IsNone(LastComment)
    /\ last.out.entry.issue # LastToken
    /\ Len(last.out.entry.comment) > Len(LastToken)

-----------------------------------------------------------------------------
(* C14: a line whose activity must come from the comment (the token is an     *)
(* issue key, or an alias without activity) and whose comment gives none (no  *)
(* literal and no regex is found in it, or the line has no comment) raises    *)
(* and leaves the list of the date as it was; and every entry of every date   *)
(* holds an activity that is a value of the activity map.                     *)
NeedsComment == IssueKeyToken \/ (KnownAlias /\ IsNone(cfg[LastToken].activity))

NoActivityIn(c) == IsNone(c) \/ (Literals(Val(c)) = {} /\ Rules(Val(c)) = {})

C14_NoNullActivity ==
    /\ (NeedsComment /\ NoActivityIn(LastComment)) =>
          /\ last.out.exc # "none"
          /\ entries[last.date] = last.pre
          /\ pc = "failed"
    /\ \A d \in DOMAIN entries : \A i \in 1..Len(entries[d]) :
          \E k \in DOMAIN activity_map : entries[d][i].activity = activity_map[k]

\* the rules were consulted on a comment and gave None, on a date that already
\* held an entry
C14_Witness ==
    /\ NeedsComment
    /\ ~IsNone(LastComment)
    /\ last.out.c2aCalled
    /\ last.out.c2aResult = None
    /\ last.out.reTried = Len(c2a.map)
    /\ last.out.exc = "KeyError"
    /\ Len(last.pre) > 0

-----------------------------------------------------------------------------
(* C15: a call of diff leaves the entries of both operands as they were, the  *)
(* days present on one side only included, makes no call on the Jira client   *)
(* (the server and the record of the last client call stay as they were), and *)
(* a second call on the same operands returns a result equal to the first.    *)
DiffCalled == results' # results /\ results'.op \in {"diff", "self", "again"}

C15_DiffPure ==
    [][DiffCalled =>
          /\ entries' = entries
          /\ other' = other
          /\ server' = server
          /\ jlast' = jlast
          /\ results'.op = "again" => results'.res = results.res]_vars

\* diff was called twice on operands that differ in their days and in their
\* entries
C15_Witness ==
    /\ results.op = "again"
    /\ DOMAIN entries # DOMAIN other
    /\ \E d \in DOMAIN results.res : results.res[d]["+"] # << >>
    /\ \E d \in DOMAIN results.res : results.res[d]["-"] # << >>

-----------------------------------------------------------------------------
(* C17: in A.diff(B), when a day of A holds one or more entries equal on      *)
(* (hours, issue, activity, comment) and B holds on that day at least one     *)
(* entry equal to them, '+' holds none of them and '-' none of B's, however   *)
(* many copies each side holds; when B holds none, '+' holds as many of them  *)
(* as A does.                                                                 *)
Copies(xs, e) == {i \in 1..Len(xs) : SameFour(xs[i], e)}

C17_ExistenceNotCount ==
    results.op = "diff" =>
        \A d \in DOMAIN entries : \A i \in 1..Len(entries[d]) :
            LET e == entries[d][i]
                A == entries[d]
                B == ListOn(other, d)
            IN  Copies(A, e) # {} =>
                    IF Copies(B, e) # {}
                    THEN /\ Copies(results.res[d]["+"], e) = {}
                         /\ Copies(results.res[d]["-"], e) = {}
                    ELSE Cardinality(Copies(results.res[d]["+"], e)) = Cardinality(Copies(A, e))

\* a day holds two copies on one side and one on the other, and the result of
\* the day is empty
C17_Witness ==
    /\ results.op = "diff"
    /\ \E d \in (DOMAIN entries) \cap (DOMAIN other) :
          /\ entries[d] # << >>
          /\ Cardinality(Copies(entries[d], entries[d][1])) # Cardinality(Copies(other[d], entries[d][1]))
          /\ Copies(other[d], entries[d][1]) # {}
          /\ results.res[d]["+"] = << >>
          /\ results.res[d]["-"] = << >>

-----------------------------------------------------------------------------
(* JiraClient objects: construction, the environment, logging, and requests *)

Tokens == {"t1", "t2"}
Creds == {<<"u1", "p1">>}

\* d[k] = v on a dictionary
SetItem(d, k, v) == [x \in (DOMAIN d) \cup {k} |-> IF x = k THEN v ELSE d[x]]

\* lines 47-56 of __init__: the object (its user_creds; the token it was built
\* with is kept beside it) and HEADERS as the constructor leaves it
JiraClient_init(headers, env, creds) ==
    IF ~IsNone(env)
    THEN [self |-> [user_creds |-> None, token |-> env],
          HEADERS |-> SetItem(headers, "Authorization", Bearer(Val(env)))]
    ELSE [self |-> [user_creds |-> Some(creds), token |-> None],
          HEADERS |-> headers]

\* the exception types that responses with an error status (4xx, 5xx) were
\* surfaced as, the call that got resp and came to out included
Surfaced(rs, resp, out) ==
    IF out.sent = 1 /\ resp.status >= 400 THEN rs \cup {out.exc} ELSE rs

\* the request of a call, as hlast keeps it; headers is HEADERS as the request
\* is made
Request(via, self, auth, resp, out, headers) ==
    [via |-> via, self |-> self, auth |-> auth, resp |-> resp, out |-> out,
     wire |-> IF out.sent = 1 THEN Wire(headers, auth) ELSE << >>]

\* sde.source_file(add_env={'JIRA_TOKEN': token}) with blank_env False:
\* os.environ itself is updated
SourceFile(token) ==
    /\ environ' = Some(token)
    /\ UNCHANGED <<HEADERS, SDE_CONFIG, clients, hlast, raised>>
    /\ UNCHANGED <<entries, fileVars, diffVars, jiraVars, searchVars>>

\* JiraClient(user, passwd, fields=fields); with fields the constructor calls
\* get_fields, whose response is resp, and an exception leaves no object
NewClient(creds, fields, resp) ==
    /\ Len(clients) < MaxClients
    /\ LET r == JiraClient_init(HEADERS, environ, creds)
           out == IF check_http_response(resp).exc # "none" THEN check_http_response(resp)
                  ELSE IF JsonFails(resp) THEN CallOutcome("JSONDecodeError", FALSE, TRUE, 1)
                  ELSE check_http_response(resp)
       IN  /\ HEADERS' = r.HEADERS
           /\ IF fields
              THEN /\ hlast' = Request("check_http_response", r.self, r.self.user_creds, resp, out,
                                      r.HEADERS)
                   /\ raised' = Surfaced(raised, resp, out)
                   /\ clients' = IF out.exc = "none" THEN Append(clients, r.self) ELSE clients
              ELSE /\ clients' = Append(clients, r.self)
                   /\ UNCHANGED <<hlast, raised>>
    /\ UNCHANGED <<environ, SDE_CONFIG>>
    /\ UNCHANGED <<entries, fileVars, diffVars, jiraVars, searchVars>>

\* sde.init_logging(debug=debug)
InitLogging(debug) ==
    /\ SDE_CONFIG' = [logger |-> Some("root"), debug |-> debug]
    /\ UNCHANGED <<HEADERS, environ, clients, hlast, raised>>
    /\ UNCHANGED <<entries, fileVars, diffVars, jiraVars, searchVars>>

\* sde.sde_debug(debug), debug being None or a value
SdeDebug(debug) ==
    /\ SDE_CONFIG' = IF IsNone(debug) THEN SDE_CONFIG
                     ELSE [SDE_CONFIG EXCEPT !.debug = Val(debug)]
    /\ UNCHANGED <<HEADERS, environ, clients, hlast, raised>>
    /\ UNCHANGED <<entries, fileVars, diffVars, jiraVars, searchVars>>

\* an operation of client c that goes through _execute (api_call,
\* tempo_api_call, tempo_log, tempo_delete, link_issues, ...)
Execute(c, type_, payload, stream, resp) ==
    /\ c \in 1..Len(clients)
    /\ LET out == _execute(type_, payload, stream, resp)
       IN  /\ hlast' = Request("_execute", clients[c], clients[c].user_creds, resp, out,
                               HEADERS)
           /\ raised' = Surfaced(raised, resp, out)
    /\ UNCHANGED <<HEADERS, environ, SDE_CONFIG, clients>>
    /\ UNCHANGED <<entries, fileVars, diffVars, jiraVars, searchVars>>

\* get_issue, update_issue or get_user of client c
Checked(c, op, resp) ==
    /\ c \in 1..Len(clients)
    /\ LET out == checked_call(op, resp)
           auth == IF CheckedOps[op].auth THEN clients[c].user_creds ELSE None
       IN  /\ hlast' = Request("check_http_response", clients[c], auth, resp, out, HEADERS)
           /\ raised' = Surfaced(raised, resp, out)
    /\ UNCHANGED <<HEADERS, environ, SDE_CONFIG, clients>>
    /\ UNCHANGED <<entries, fileVars, diffVars, jiraVars, searchVars>>

\* the process before any client is constructed; JIRA_TOKEN is set or not
InitClient ==
    /\ HEADERS = HeadersLiteral
    /\ environ \in {None} \cup {Some(t) : t \in Tokens}
    /\ SDE_CONFIG = SdeConfigLiteral
    /\ clients = << >>
    /\ hlast = NoRequest
    /\ raised = {}
    /\ SearchIdle
    /\ server = << >>
    /\ jlast = NoJiraCall
    /\ entries = << >>
    /\ other = << >>
    /\ results = NoResult
    /\ pc = "start"
    /\ cur = 0
    /\ nlines = 0
    /\ seen = 0
    /\ nskip = 0
    /\ last = NoCall

\* the responses of a server that answers or does not find the resource
FoundOrNot == {r \in Responses : r.body = "json" /\ r.status \in {200, 404}}

NextClient ==
    \/ \E t \in Tokens : SourceFile(t)
    \/ \E creds \in Creds, fields \in BOOLEAN, resp \in FoundOrNot : NewClient(creds, fields, resp)
    \/ \E debug \in BOOLEAN : InitLogging(debug)
    \/ \E debug \in {None, Some(TRUE), Some(FALSE)} : SdeDebug(debug)
    \/ \E c \in 1..MaxClients, resp \in FoundOrNot : Execute(c, "GET", FALSE, FALSE, resp)
    \/ \E c \in 1..MaxClients, op \in DOMAIN CheckedOps, resp \in FoundOrNot : Checked(c, op, resp)

SpecClient == InitClient /\ [][NextClient]_vars

\* one client, constructed with or without JIRA_TOKEN set
InitHttp ==
    /\ environ \in {None} \cup {Some(t) : t \in Tokens}
    /\ \E creds \in Creds :
          /\ HEADERS = JiraClient_init(HeadersLiteral, environ, creds).HEADERS
          /\ clients = <<JiraClient_init(HeadersLiteral, environ, creds).self>>
    /\ SDE_CONFIG = SdeConfigLiteral
    /\ hlast = NoRequest
    /\ raised = {}
    /\ SearchIdle
    /\ server = << >>
    /\ jlast = NoJiraCall
    /\ entries = << >>
    /\ other = << >>
    /\ results = NoResult
    /\ pc = "start"
    /\ cur = 0
    /\ nlines = 0
    /\ seen = 0
    /\ nskip = 0
    /\ last = NoCall

RequestTypes == {"GET", "PUT", "POST", "DELETE", "PATCH"}

\* every operation of the one client on every response
NextHttp ==
    \/ \E type_ \in RequestTypes, payload \in BOOLEAN, stream \in BOOLEAN, resp \in Responses :
          Execute(1, type_, payload, stream, resp)
    \/ \E op \in DOMAIN CheckedOps, resp \in Responses : Checked(1, op, resp)

SpecHttp == InitHttp /\ [][NextHttp]_vars

-----------------------------------------------------------------------------
(* JiraClient.search *)

\* the longest page the server returns
PageLens == 0..2

\* the issues of the k-th page that holds n of them
Issues(k, n) == [i \in 1..n |-> <<k, i>>]

\* the responses to the k-th request of a search: a status code and a body that
\* is no JSON text, a JSON text without 'issues', or one with a list of issues
PageResponses(k) ==
    {[status |-> st, body |-> b, issues |-> None] : st \in Statuses, b \in Bodies}
    \cup {[status |-> st, body |-> "json", issues |-> Some(Issues(k, n))] :
             st \in Statuses, n \in PageLens}

\* what one iteration of the loop comes to: the position, the locals and the
\* exception that leaves search
Iteration(pos, st, vals, exc) == [spc |-> pos, start |-> st, values |-> vals, exc |-> exc]

\* the iteration with start advanced by the number of issues received
search_page_ByCount(st, vals, max, resp) ==
    IF check_http_response(resp).exc # "none"
    THEN Iteration("raised", st, vals, check_http_response(resp).exc)
    ELSE IF JsonFails(resp) THEN Iteration("raised", st, vals, "JSONDecodeError")
    ELSE IF IsNone(resp.issues) THEN Iteration("raised", st, vals, "KeyError")
    ELSE IF Len(Val(resp.issues)) = 0 THEN Iteration("returned", st, vals, "none")
    ELSE Iteration("paging", st + Len(Val(resp.issues)), vals \o Val(resp.issues), "none")

\* lines 125-138: one iteration of the loop, resp being the response to the
\* request for the page at `start`
search_page(st, vals, max, resp) ==
    IF check_http_response(resp).exc # "none"
    THEN Iteration("raised", st, vals, check_http_response(resp).exc)
    ELSE IF JsonFails(resp) THEN Iteration("raised", st, vals, "JSONDecodeError")
    ELSE IF IsNone(resp.issues) THEN Iteration("raised", st, vals, "KeyError")
    ELSE IF Len(Val(resp.issues)) = 0 THEN Iteration("returned", st, vals, "none")
    ELSE Iteration("paging", st + max, vals \o Val(resp.issues), "none")

\* client.search(jql, max_results=max): lines 122-124
SearchCall(max) ==
    /\ spc = "idle"
    /\ spc' = "paging"
    /\ start' = 0
    /\ values' = << >>
    /\ max_results' = max
    /\ slog' = NoSearch
    /\ UNCHANGED <<entries, fileVars, diffVars, jiraVars, clientVars>>

\* one iteration: the page at `start` is requested and the response handled;
\* the server holds the issues of MaxPages pages at most
SearchPage(resp) ==
    /\ spc = "paging"
    /\ (~IsNone(resp.issues) /\ Val(resp.issues) # << >>) => Len(slog.pages) < MaxPages
    /\ LET r == search_page(start, values, max_results, resp)
       IN  /\ spc' = r.spc
           /\ start' = r.start
           /\ values' = r.values
           /\ slog' = [offsets |-> Append(slog.offsets, start),
                       pages |-> IF r.exc = "none" THEN Append(slog.pages, Val(resp.issues))
                                 ELSE slog.pages,
                       resp |-> Some(resp),
                       exc |-> r.exc,
                       result |-> IF r.spc = "returned" THEN Some(r.values) ELSE None]
    /\ UNCHANGED <<max_results, entries, fileVars, diffVars, jiraVars, clientVars>>

\* one client, constructed with or without JIRA_TOKEN set; search not called
InitSearch ==
    /\ environ \in {None} \cup {Some(t) : t \in Tokens}
    /\ \E creds \in Creds :
          /\ HEADERS = JiraClient_init(HeadersLiteral, environ, creds).HEADERS
          /\ clients = <<JiraClient_init(HeadersLiteral, environ, creds).self>>
    /\ SDE_CONFIG = SdeConfigLiteral
    /\ hlast = NoRequest
    /\ raised = {}
    /\ SearchIdle
    /\ server = << >>
    /\ jlast = NoJiraCall
    /\ entries = << >>
    /\ other = << >>
    /\ results = NoResult
    /\ pc = "start"
    /\ cur = 0
    /\ nlines = 0
    /\ seen = 0
    /\ nskip = 0
    /\ last = NoCall

NextSearch ==
    \/ \E max \in PageLens : SearchCall(max)
    \/ \E resp \in PageResponses(Len(slog.offsets) + 1) : SearchPage(resp)

SpecSearch == InitSearch /\ [][NextSearch]_vars

-----------------------------------------------------------------------------
(* C12: the requests of a search are for the offsets 0, max_results,          *)
(* 2*max_results, ..., one for each iteration; the search returns at the      *)
(* first page without issues, and only there, and what it returns is the      *)
(* issues of the pages before it, in the order received; a page answered with *)
(* an error status leaves the search with an exception and without a result.  *)
RECURSIVE Flatten(_)
Flatten(ps) == IF ps = << >> THEN << >> ELSE Head(ps) \o Flatten(Tail(ps))

EmptyPage(resp) ==
    /\ ~raise_for_status(resp)
    /\ resp.body = "json"
    /\ resp.issues = Some(<< >>)

C12_SearchPaging ==
    LET n == Len(slog.offsets)
    IN  /\ \A i \in 1..n : slog.offsets[i] = (i - 1) * max_results
        /\ spc = "paging" =>
              /\ Len(slog.pages) = n
              /\ \A i \in 1..n : slog.pages[i] # << >>
              /\ values = Flatten(slog.pages)
              /\ slog.result = None
        /\ spc = "returned" =>
              /\ Len(slog.pages) = n
              /\ slog.pages[n] = << >>
              /\ \A i \in 1..(n - 1) : slog.pages[i] # << >>
              /\ slog.result = Some(Flatten(SubSeq(slog.pages, 1, n - 1)))
              /\ slog.exc = "none"
        /\ spc = "raised" =>
              /\ slog.exc # "none"
              /\ slog.result = None
        /\ (~IsNone(slog.resp) /\ Val(slog.resp).status >= 400) => spc = "raised"
        /\ (~IsNone(slog.resp) /\ EmptyPage(Val(slog.resp))) => spc = "returned"

\* a search returned the issues of two pages, the first shorter than
\* max_results
C12_Witness ==
    /\ spc = "returned"
    /\ Len(slog.pages) = 3
    /\ Len(slog.pages[1]) < max_results
    /\ Len(slog.pages[2]) = max_results
    /\ Val(slog.result) = slog.pages[1] \o slog.pages[2]

-----------------------------------------------------------------------------
(* C11, as stated: every response with an error status (4xx or 5xx) to the    *)
(* request of a client operation, be it checked by _execute or by             *)
(* check_http_response, leaves the operation as an exception of one and the   *)
(* same type that holds the status code and the body, and one request was     *)
(* sent for the call.                                                         *)
C11_AsStated ==
    /\ Cardinality(raised) <= 1
    /\ "none" \notin raised
    /\ (hlast.out.sent > 0 /\ hlast.resp.status >= 400) =>
          /\ hlast.out.exc # "none"
          /\ hlast.out.status
          /\ hlast.out.body
          /\ hlast.out.sent = 1

-----------------------------------------------------------------------------
(* C16, as stated: HEADERS is, whatever clients were constructed and whatever *)
(* was requested, as the module was loaded; and the headers of a request are  *)
(* those that the client alone accounts for: the module's literal, with the   *)
(* bearer token the client itself was constructed with, if any, or its own    *)
(* basic authentication.                                                      *)
OwnHeaders(self) ==
    IF IsNone(self.token) THEN HeadersLiteral
    ELSE SetItem(HeadersLiteral, "Authorization", Bearer(Val(self.token)))

C16_AsStated ==
    /\ HEADERS = HeadersLiteral
    /\ hlast.out.sent = 1 => hlast.wire = Wire(OwnHeaders(hlast.self), hlast.auth)

====
